---- MODULE Spec2Model ----
(***************************************************************************)
(* Linear bleedthrough correction (cytoflow BleedthroughLinearOp).         *)
(*                                                                         *)
(* The operation object holds two dictionaries, `controls` and             *)
(* `spillover`.  estimate() fits one slope per ordered pair of control     *)
(* channels and writes it into `spillover`; apply() checks the table,      *)
(* clones the experiment, builds the mixing matrix, multiplies the channel *)
(* columns by its pseudoinverse and records the coefficients in the clone's *)
(* metadata.                                                               *)
(*                                                                         *)
(* Numbers are exact rationals <<n, d>> (d > 0, lowest terms); <<0, 0>>    *)
(* stands for NaN.                                                         *)
(***************************************************************************)
EXTENDS Integers, Sequences, FiniteSets, TLC

VARIABLES controls, spillover, experiment, pc, given, outcome, new_experiment, aux

vars == <<controls, spillover, experiment, pc, given, outcome, new_experiment, aux>>

(***************************************************************************)
(* Bounds of the model.                                                    *)
(***************************************************************************)
\* coefficients a caller writes into the table directly are 0..MaxCoef
MaxCoef == 1
\* number of events (rows) of the experiment being corrected
NumEvents == 2

(***************************************************************************)
(* Rational arithmetic.                                                    *)
(***************************************************************************)
Abs(x) == IF x < 0 THEN -x ELSE x

RECURSIVE GCD(_, _)
GCD(a, b) == IF b = 0 THEN a ELSE GCD(b, a % b)

NaN == <<0, 0>>

RNorm(n, d) ==
    IF d = 0 THEN NaN
    ELSE LET g == GCD(Abs(n), Abs(d))
             s == IF d < 0 THEN -1 ELSE 1
         IN  <<(s * n) \div g, (s * d) \div g>>

R(x) == <<x, 1>>
RAdd(p, q) == RNorm(p[1] * q[2] + q[1] * p[2], p[2] * q[2])
RMul(p, q) == RNorm(p[1] * q[1], p[2] * q[2])
RNeg(p) == <<-p[1], p[2]>>
RDiv(p, q) == RNorm(p[1] * q[2], p[2] * q[1])

RECURSIVE RSum(_, _)
\* sum of f[1] .. f[n]
RSum(f, n) == IF n = 0 THEN R(0) ELSE RAdd(RSum(f, n - 1), f[n])

(***************************************************************************)
(* Dense square matrices: sequences of rows (numpy arrays).                *)
(***************************************************************************)
RECURSIVE Array(_, _)
\* the sequence <<f[1], ..., f[n]>>, its elements computed once
Array(f, n) == IF n = 0 THEN << >> ELSE Append(Array(f, n - 1), f[n])

Matrix(f, n) == Array([i \in 1..n |-> Array(f[i], n)], n)

MatMul(X, Y, n) ==
    Matrix([i \in 1..n |-> [j \in 1..n |->
        RSum(Array([k \in 1..n |-> RMul(X[i][k], Y[k][j])], n), n)]], n)

Transpose(X, n) == Matrix([i \in 1..n |-> [j \in 1..n |-> X[j][i]]], n)

Identity(n) ==
    Matrix([i \in 1..n |-> [j \in 1..n |-> IF i = j THEN R(1) ELSE R(0)]], n)

Scale(c, X, n) == Matrix([i \in 1..n |-> [j \in 1..n |-> RMul(c, X[i][j])]], n)

MatAdd(X, Y, n) ==
    Matrix([i \in 1..n |-> [j \in 1..n |-> RAdd(X[i][j], Y[i][j])]], n)

Trace(X, n) == RSum(Array([k \in 1..n |-> X[k][k]], n), n)

\* The Faddeev-LeVerrier sequence of B = A A^T: M_1 = I, c_k = -tr(B M_k)/k,
\* M_(k+1) = B M_k + c_k I.  Decell(B, n, k, Mk, last) runs it from step k and
\* returns [c |-> c_r, M |-> M_r] for r the largest index with c_r # 0 (the rank),
\* or `last` if there is none from k on.
RECURSIVE Decell(_, _, _, _, _)
Decell(B, n, k, Mk, last) ==
    IF k > n THEN last
    ELSE LET BM == MatMul(B, Mk, n)
             ck == RDiv(RNeg(Trace(BM, n)), R(k))
             Mnext == MatAdd(BM, Scale(ck, Identity(n), n), n)
         IN  IF ck = R(0) THEN Decell(B, n, k + 1, Mnext, last)
             ELSE Decell(B, n, k + 1, Mnext, [c |-> ck, M |-> Mk])

\* numpy.linalg.pinv: the Moore-Penrose pseudoinverse, A^+ = -(1/c_r) A^T M_r
pinv(a, n) ==
    LET At == Transpose(a, n)
        p == Decell(MatMul(a, At, n), n, 1, Identity(n), [c |-> R(0), M |-> Identity(n)])
    IN  IF p.c = R(0) THEN Scale(R(0), At, n)
        ELSE Scale(RDiv(R(-1), p.c), MatMul(At, p.M, n), n)

(***************************************************************************)
(* Channels, dictionaries, control files, experiments.                     *)
(***************************************************************************)
Channels == {"A", "B", "C"}

\* "T" is a column of the data that is no fluorescence channel
Columns == Channels \cup {"T"}

\* the keys of `spillover`: ordered pairs of distinct channels
Pairs == {k \in Channels \X Channels : k[1] # k[2]}

Coefs == {R(v) : v \in 0..MaxCoef}

\* d[k] = v on a dictionary (a function with a finite domain)
Put(d, k, v) == [x \in DOMAIN d \cup {k} |-> IF x = k THEN v ELSE d[x]]

Del(d, k) == [x \in DOMAIN d \ {k} |-> d[x]]

\* the orders in which a dictionary or set of names can be enumerated
Orders(S) ==
    {o \in [1..Cardinality(S) -> S] : \A i, j \in 1..Cardinality(S) : i # j => o[i] # o[j]}

FileNames == {"bead1.fcs", "bead2.fcs", "none.fcs"}

\* The control files on disk, as tables of events.  In bead1.fcs the three
\* channels are proportional (B = 2 A, C = 3 A); in bead2.fcs channel A is
\* constant, so trimming on A removes every event.  none.fcs does not exist.
FileSystem ==
    [f \in {"bead1.fcs", "bead2.fcs"} |->
        IF f = "bead1.fcs"
        THEN [i \in 1..10 |-> LET v == (3 * i) % 11 IN [A |-> v, B |-> 2 * v, C |-> 3 * v]]
        ELSE [i \in 1..6 |-> LET v == (3 * i) % 7 IN [A |-> 5, B |-> v, C |-> 2 * v]]]

\* os.path.isfile
isfile(f) == f \in DOMAIN FileSystem

\* The experiments a caller may hold.  Both have NumEvents events; "full" has every
\* column and an autofluorescence median for channel A, "noC" lacks channel C.
Event(c, i) == R(i * (IF c = "A" THEN 2 ELSE IF c = "B" THEN 3 ELSE IF c = "C" THEN 5 ELSE 7))

MakeExperiment(cols, af) ==
    [data |-> [c \in cols |-> [i \in 1..NumEvents |-> Event(c, i)]],
     metadata |-> [c \in cols |-> IF c \in af THEN [af_median |-> 3] ELSE << >>]]

Experiments == {MakeExperiment(Columns, {"A"}), MakeExperiment(Columns \ {"C"}, {})}

\* what the variables hold when no call has returned an experiment
NoExperiment == [data |-> << >>, metadata |-> << >>]

NoAux == [channels |-> << >>, a |-> << >>, loaded |-> << >>, pair |-> << >>,
          fits |-> << >>, returns |-> "None"]

(***************************************************************************)
(* estimate(): lines 89-140.                                               *)
(***************************************************************************)
\* the trimming factors, in percent
MinFactor == 105
MaxFactor == 95

\* parse_tube(file, experiment): the events of a control file
parse_tube(f) == FileSystem[f]

RECURSIVE Insert(_, _, _)
\* row r put into the sequence rows (sorted by column ch) before the first larger row
Insert(rows, r, ch) ==
    IF rows = << >> THEN <<r>>
    ELSE IF r[ch] < Head(rows)[ch] THEN <<r>> \o rows
         ELSE <<Head(rows)>> \o Insert(Tail(rows), r, ch)

RECURSIVE sort(_, _)
\* DataFrame.sort(channel): the rows in ascending order of column ch
sort(rows, ch) ==
    IF rows = << >> THEN << >>
    ELSE Insert(sort(SubSeq(rows, 1, Len(rows) - 1), ch), rows[Len(rows)], ch)

RECURSIVE ColMin(_, _)
ColMin(rows, ch) ==
    IF Len(rows) = 1 THEN rows[1][ch]
    ELSE LET m == ColMin(Tail(rows), ch)
         IN  IF rows[1][ch] < m THEN rows[1][ch] ELSE m

RECURSIVE ColMax(_, _)
ColMax(rows, ch) ==
    IF Len(rows) = 1 THEN rows[1][ch]
    ELSE LET m == ColMax(Tail(rows), ch)
         IN  IF rows[1][ch] > m THEN rows[1][ch] ELSE m

\* lines 124-127 and 129-132: keep the rows strictly between 1.05 min and 0.95 max
\* of column ch.  On no rows min and max are NaN and every comparison is false.
Trim(rows, ch) ==
    IF rows = << >> THEN << >>
    ELSE LET lo == ColMin(rows, ch)
             hi == ColMax(rows, ch)
             AboveMin(r) == 100 * r[ch] > MinFactor * lo
             BelowMax(r) == 100 * r[ch] < MaxFactor * hi
         IN  SelectSeq(SelectSeq(rows, AboveMin), BelowMax)

RECURSIVE SumOver(_, _, _)
\* the sum of r[c1] * r[c2] over the rows; column "1" is the constant 1
SumOver(rows, c1, c2) ==
    IF rows = << >> THEN 0
    ELSE LET r == Head(rows)
             u == IF c1 = "1" THEN 1 ELSE r[c1]
             w == IF c2 = "1" THEN 1 ELSE r[c2]
         IN  u * w + SumOver(Tail(rows), c1, c2)

\* np.polyfit(x, y, deg = 1)[0] on at least one row: the least-squares slope; when
\* every x is the same the fit is rank deficient and lstsq's minimum-norm solution
\* on the scaled columns has slope mean(y) / (2 x)
polyfit(rows, xc, yc) ==
    LET n == Len(rows)
        Sx == SumOver(rows, xc, "1")
        Sy == SumOver(rows, yc, "1")
        Sxy == SumOver(rows, xc, yc)
        Sxx == SumOver(rows, xc, xc)
        den == n * Sxx - Sx * Sx
    IN  IF den # 0 THEN RNorm(n * Sxy - Sx * Sy, den)
        ELSE RNorm(Sy, 2 * n * rows[1][xc])

RECURSIVE SubtractAf(_, _, _, _)
\* lines 110-113: subtract the experiment's af_median from each control column.
\* Gives [outcome, data]; experiment.metadata[af_channel] of a channel the
\* experiment does not have raises KeyError.
SubtractAf(data, e, channels, i) ==
    IF i > Len(channels) THEN [outcome |-> "ok", data |-> data]
    ELSE LET af_channel == channels[i]
         IN  IF af_channel \notin DOMAIN e.metadata
             THEN [outcome |-> "KeyError", data |-> data]
             ELSE IF "af_median" \in DOMAIN e.metadata[af_channel]
                  THEN SubtractAf(
                         [j \in 1..Len(data) |->
                            [data[j] EXCEPT ![af_channel] =
                                @ - e.metadata[af_channel].af_median]],
                         e, channels, i + 1)
                  ELSE SubtractAf(data, e, channels, i + 1)

\* line 140 with the slope dropped instead of stored
StoreSlopeNowhere(s, from_channel, to_channel, slope) == s

\* line 140: where the fitted slope is stored
StoreSlope(s, from_channel, to_channel, slope) ==
    Put(s, <<from_channel, to_channel>>, slope)

RECURSIVE FitLoop(_, _, _, _, _)
\* lines 115-140: the loop over to_channel for one control.  st is the state of
\* the call: [spillover, outcome, pair, fits, loaded]; data is the control's
\* table, which each pass leaves trimmed for the next one.
FitLoop(st, data, from_channel, channels, i) ==
    IF i > Len(channels) THEN st
    ELSE IF channels[i] = from_channel
         THEN FitLoop(st, data, from_channel, channels, i + 1)
         ELSE LET to_channel == channels[i]
                  trimmed == Trim(Trim(data, from_channel), to_channel)
              IN  IF trimmed = << >>
                  THEN \* np.polyfit: TypeError("expected non-empty vector for x")
                       [st EXCEPT !.outcome = "TypeError",
                                  !.pair = <<from_channel, to_channel>>]
                  ELSE FitLoop(
                         [st EXCEPT
                            !.spillover = StoreSlope(@, from_channel, to_channel,
                                            polyfit(trimmed, from_channel, to_channel)),
                            !.fits = Put(@, <<from_channel, to_channel>>, trimmed)],
                         trimmed, from_channel, channels, i + 1)

RECURSIVE ChannelLoop(_, _, _, _, _)
\* lines 107-140: the loop over the controls
ChannelLoop(st, ctl, e, channels, i) ==
    IF i > Len(channels) \/ st.outcome # "ok" THEN st
    ELSE LET channel == channels[i]
             loaded == [st EXCEPT !.loaded = Append(@, ctl[channel])]
             af == SubtractAf(sort(parse_tube(ctl[channel]), channel), e, channels, 1)
         IN  IF ~isfile(ctl[channel]) THEN [st EXCEPT !.outcome = "IOError"]
             ELSE IF af.outcome # "ok" THEN [loaded EXCEPT !.outcome = af.outcome]
             ELSE ChannelLoop(FitLoop(loaded, af.data, channel, channels, 1),
                              ctl, e, channels, i + 1)

\* lines 93-105 without the loop over the files: a missing file is found on loading
EstimateChecksLazy(ctl, g) ==
    /\ g
    /\ Cardinality(DOMAIN ctl) >= 2

\* lines 93-105: the checks estimate() makes before it loads anything
EstimateChecks(ctl, g) ==
    /\ g
    /\ Cardinality(DOMAIN ctl) >= 2
    /\ \A channel \in DOMAIN ctl : isfile(ctl[channel])

\* estimate(experiment) on an operation with controls ctl and table s; g tells
\* whether an experiment is given, channels is the order of controls.keys()
estimate(ctl, s, e, g, channels) ==
    LET st0 == [spillover |-> s, outcome |-> "ok", pair |-> << >>,
                fits |-> << >>, loaded |-> << >>]
    IN  IF ~EstimateChecks(ctl, g) THEN [st0 EXCEPT !.outcome = "CytoflowOpError"]
        ELSE ChannelLoop(st0, ctl, e, channels, 1)

(***************************************************************************)
(* apply(): lines 142-193.                                                 *)
(***************************************************************************)
\* line 157 with the emptiness test left out
SpilloverSetAlways(s) == TRUE

\* line 157: the table is set
SpilloverSet(s) == DOMAIN s # {}

\* lines 162-167 with the two column tests left out
ChannelsPresentUnchecked(s, e) == TRUE

\* lines 162-167: both channels of every key are columns of the experiment
ChannelsPresent(s, e) ==
    \A k \in DOMAIN s : k[1] \in DOMAIN e.data /\ k[2] \in DOMAIN e.data

\* line 169 testing the key itself, (from, to), instead of the mirrored key
MirroredSelf(s) == \A k \in DOMAIN s : <<k[1], k[2]>> \in DOMAIN s

\* line 169: every key has its mirrored key
Mirrored(s) == \A k \in DOMAIN s : <<k[2], k[1]>> \in DOMAIN s

\* lines 154-171: the checks apply() makes before it clones the experiment
ApplyChecks(s, e, g) ==
    /\ g
    /\ SpilloverSet(s)
    /\ ChannelsPresent(s, e)
    /\ Mirrored(s)

\* line 176: the set the channel list is made from
ChannelSet(s) == {k[1] : k \in DOMAIN s}

\* lines 179-180: the keys the matrix reads
MatrixKeys(channels) ==
    {<<channels[i], channels[j]>> : i, j \in 1..Len(channels)} \cap Pairs

\* lines 179-180 with the key reversed: spillover[(x, y)]
MixingMatrixTransposed(s, channels) ==
    Matrix([i \in 1..Len(channels) |-> [j \in 1..Len(channels) |->
              LET y == channels[i]
                  x == channels[j]
              IN  IF x # y THEN s[<<x, y>>] ELSE R(1)]], Len(channels))

\* lines 179-180: a = [[spillover[(y, x)] if x != y else 1.0 for x in channels]
\*                     for y in channels]
MixingMatrix(s, channels) ==
    Matrix([i \in 1..Len(channels) |-> [j \in 1..Len(channels) |->
              LET y == channels[i]
                  x == channels[j]
              IN  IF x # y THEN s[<<y, x>>] ELSE R(1)]], Len(channels))

\* line 185, right-hand side: np.dot(experiment.data[channels], a_inv), by column
Corrected(e, channels, a_inv) ==
    [j \in 1..Len(channels) |->
        [ev \in 1..NumEvents |->
            RSum(Array([k \in 1..Len(channels) |->
                          RMul(e.data[channels[k]][ev], a_inv[k][j])],
                       Len(channels)), Len(channels))]]

\* the position of channel c in the list
IndexOf(channels, c) == CHOOSE i \in 1..Len(channels) : channels[i] = c

\* experiment.clone(): a copy that shares nothing with the original
clone(e) == e

\* line 185 storing the columns in the experiment it was given
StoreColumnsInPlace(objs, channels, cols) ==
    [objs EXCEPT !.experiment.data =
        [c \in DOMAIN @ |->
            IF \E i \in 1..Len(channels) : channels[i] = c
            THEN cols[CHOOSE i \in 1..Len(channels) : channels[i] = c] ELSE @[c]]]

\* line 185, left-hand side: the columns are stored in new_experiment.  objs is
\* [experiment, new_experiment], the two objects the call holds.
StoreColumns(objs, channels, cols) ==
    [objs EXCEPT !.new_experiment.data =
        [c \in DOMAIN @ |->
            IF \E i \in 1..Len(channels) : channels[i] = c
            THEN cols[IndexOf(channels, c)] ELSE @[c]]]

\* lines 190-191 with the key reversed: spillover[(channel, x)]
BleedthroughOut(s, channels, channel) ==
    [x \in {channels[i] : i \in 1..Len(channels)} \ {channel} |-> s[<<channel, x>>]]

\* lines 190-191: the coefficients recorded for one channel
Bleedthrough(s, channels, channel) ==
    [x \in {channels[i] : i \in 1..Len(channels)} \ {channel} |-> s[<<x, channel>>]]

\* lines 187-191: the metadata of every corrected channel gets its coefficients
StoreMetadata(objs, s, channels) ==
    [objs EXCEPT !.new_experiment.metadata =
        [c \in DOMAIN @ |->
            IF \E i \in 1..Len(channels) : channels[i] = c
            THEN Put(@[c], "linear_bleedthrough", Bleedthrough(s, channels, c))
            ELSE @[c]]]

\* apply(experiment) with table s; g tells whether an experiment is given,
\* channels is the order list(set(...)) gives the channels.  Gives the outcome,
\* the two experiment objects as the call leaves them, and the matrix.
apply(s, e, g, channels) ==
    LET objs == [experiment |-> e, new_experiment |-> clone(e)]
        fail == [outcome |-> "CytoflowOpError", objs |-> objs, a |-> << >>]
    IN  IF ~ApplyChecks(s, e, g) THEN fail
        ELSE IF ~(MatrixKeys(channels) \subseteq DOMAIN s)
             THEN [fail EXCEPT !.outcome = "KeyError"]
        ELSE IF \E i \in 1..Len(channels) : channels[i] \notin DOMAIN e.data
             THEN [fail EXCEPT !.outcome = "KeyError"]
        ELSE LET a == MixingMatrix(s, channels)
                 a_inv == pinv(a, Len(channels))
                 stored == StoreColumns(objs, channels, Corrected(e, channels, a_inv))
             IN  [outcome |-> "ok", objs |-> StoreMetadata(stored, s, channels), a |-> a]

(***************************************************************************)
(* The operation object and its caller.                                    *)
(*                                                                         *)
(* controls, spillover : the traits of the BleedthroughLinearOp            *)
(* experiment          : the caller's experiment                           *)
(* pc, given           : the last call ("none", "estimate", "apply") and   *)
(*                       whether it was given the experiment               *)
(* outcome             : "ok" or the exception the call raised             *)
(* new_experiment      : the experiment apply() returned                   *)
(* aux                 : what the call did: the channel order it used, the *)
(*                       mixing matrix, the files loaded, the rows fitted  *)
(*                       per pair, the pair whose rows were all trimmed,   *)
(*                       and what it returned                              *)
(*                                                                         *)
(* The caller either writes coefficients into the table of an operation    *)
(* that has no controls, or sets up controls on an operation whose table   *)
(* is empty and estimates; it may change the controls between estimates.   *)
(***************************************************************************)
Init ==
    /\ controls = << >>
    /\ spillover = << >>
    /\ experiment \in Experiments
    /\ pc = "none"
    /\ given = FALSE
    /\ outcome = "none"
    /\ new_experiment = NoExperiment
    /\ aux = NoAux

\* no call is pending: the caller holds no result of a call
Forget ==
    /\ pc' = "none"
    /\ given' = FALSE
    /\ outcome' = "none"
    /\ new_experiment' = NoExperiment
    /\ aux' = NoAux

\* op = BleedthroughLinearOp()
NewOp ==
    /\ pc = "none"
    /\ controls' = << >>
    /\ spillover' = << >>
    /\ Forget
    /\ UNCHANGED experiment

\* op.spillover[k] = v
SetSpillover(k, v) ==
    /\ pc = "none"
    /\ controls = << >>
    /\ spillover' = Put(spillover, k, v)
    /\ Forget
    /\ UNCHANGED <<controls, experiment>>

\* op.controls[c] = f
SetControl(c, f) ==
    /\ pc = "none"
    /\ spillover = << >> \/ controls # << >>
    /\ controls' = Put(controls, c, f)
    /\ Forget
    /\ UNCHANGED <<spillover, experiment>>

\* del op.controls[c]
DelControl(c) ==
    /\ pc = "none"
    /\ c \in DOMAIN controls
    /\ Cardinality(DOMAIN controls) > 1
    /\ controls' = Del(controls, c)
    /\ Forget
    /\ UNCHANGED <<spillover, experiment>>

\* op.estimate(experiment), or op.estimate(None) when g is FALSE
Estimate(g, channels) ==
    LET r == estimate(controls, spillover, experiment, g, channels)
    IN  /\ pc = "none"
        /\ pc' = "estimate"
        /\ given' = g
        /\ outcome' = r.outcome
        /\ spillover' = r.spillover
        /\ new_experiment' = NoExperiment
        /\ aux' = [NoAux EXCEPT
                     !.channels = IF r.outcome = "CytoflowOpError" THEN << >> ELSE channels,
                     !.loaded = r.loaded,
                     !.pair = r.pair,
                     !.fits = r.fits,
                     !.returns = IF r.outcome = "ok" THEN "None" ELSE "raise"]
        /\ UNCHANGED <<controls, experiment>>

\* op.apply(experiment), or op.apply(None) when g is FALSE
Apply(g, channels) ==
    LET r == apply(spillover, experiment, g, channels)
    IN  /\ pc = "none"
        /\ pc' = "apply"
        /\ given' = g
        /\ outcome' = r.outcome
        /\ experiment' = r.objs.experiment
        /\ new_experiment' = IF r.outcome = "ok" THEN r.objs.new_experiment
                             ELSE NoExperiment
        /\ aux' = [NoAux EXCEPT
                     !.channels = IF r.outcome = "ok" THEN channels ELSE << >>,
                     !.a = r.a,
                     !.returns = IF r.outcome = "ok" THEN "Experiment" ELSE "raise"]
        /\ UNCHANGED <<controls, spillover>>

\* the call has returned or raised; the caller drops its result and moves on
Return ==
    /\ pc # "none"
    /\ Forget
    /\ UNCHANGED <<controls, spillover, experiment>>

Next ==
    \/ NewOp
    \/ Return
    \/ \E k \in Pairs, v \in Coefs : SetSpillover(k, v)
    \/ \E c \in Channels, f \in FileNames : SetControl(c, f)
    \/ \E c \in Channels : DelControl(c)
    \/ \E g \in BOOLEAN, channels \in Orders(DOMAIN controls) : Estimate(g, channels)
    \/ \E g \in BOOLEAN, channels \in Orders(ChannelSet(spillover)) : Apply(g, channels)

Spec == Init /\ [][Next]_vars

(***************************************************************************)
(* Properties of apply().                                                  *)
(***************************************************************************)
\* apply() returned a corrected experiment
Applied == pc = "apply" /\ outcome = "ok"

\* the call raised CytoflowOpError and returned nothing
Rejected ==
    /\ outcome = "CytoflowOpError"
    /\ aux.returns = "raise"
    /\ new_experiment = NoExperiment

\* some key of the table has no mirrored key
Asymmetric == \E k \in DOMAIN spillover : <<k[2], k[1]>> \notin DOMAIN spillover

\* some key of the table names a channel the experiment has no column for
NamesMissingChannel ==
    \E k \in DOMAIN spillover :
        k[1] \notin DOMAIN experiment.data \/ k[2] \notin DOMAIN experiment.data

\* C1: whenever the table holds a key (A, B) without (B, A), apply() raises
\* CytoflowOpError and returns no corrected experiment, whatever the experiment.
C1_AsymmetricRejected == (pc = "apply" /\ Asymmetric) => Rejected

\* C1 witness: apply() was given an experiment with every named channel and a
\* table with an unmirrored key, and raised.
C1_Witness ==
    /\ pc = "apply" /\ given
    /\ Asymmetric /\ ~NamesMissingChannel
    /\ Rejected

\* C2: whenever a channel named in a key, as from or as to, is no column of
\* the experiment, apply() raises CytoflowOpError.
C2_MissingChannelRejected == (pc = "apply" /\ NamesMissingChannel) => Rejected

\* C2 witness: the table is mirrored and non-empty, so only the column test can
\* reject it, and it names a channel the experiment lacks.
C2_Witness ==
    /\ pc = "apply" /\ given
    /\ NamesMissingChannel /\ ~Asymmetric /\ spillover # << >>
    /\ Rejected

\* C3: with an empty table apply() raises CytoflowOpError; it never returns
\* an experiment while the table is empty.
C3_EmptyTableRejected ==
    /\ (pc = "apply" /\ spillover = << >>) => Rejected
    /\ (pc = "apply" /\ aux.returns = "Experiment") => spillover # << >>

\* C3 witness: apply() was given an experiment while the table was empty
C3_Witness == pc = "apply" /\ given /\ spillover = << >> /\ Rejected

\* C4: a call of apply(), successful or not, leaves the experiment it was given
\* (columns and metadata) and the table unchanged; the experiment it returns has
\* the same columns and events, and the columns outside the channel set, with
\* their metadata, as they were.
C4_CopyOnWrite ==
    [][pc' = "apply" =>
         /\ experiment' = experiment
         /\ spillover' = spillover
         /\ outcome' = "ok" =>
              /\ DOMAIN new_experiment'.data = DOMAIN experiment.data
              /\ DOMAIN new_experiment'.metadata = DOMAIN experiment.metadata
              /\ \A c \in DOMAIN experiment.data :
                    /\ Len(new_experiment'.data[c]) = Len(experiment.data[c])
                    /\ c \notin ChannelSet(spillover) =>
                          /\ new_experiment'.data[c] = experiment.data[c]
                          /\ new_experiment'.metadata[c] = experiment.metadata[c]]_vars

\* C4 witness: apply() returned an experiment whose corrected columns differ
\* from the given experiment's, which has a column outside the channel set.
C4_Witness ==
    /\ Applied
    /\ DOMAIN experiment.data \ ChannelSet(spillover) # {}
    /\ \E c \in ChannelSet(spillover) : new_experiment.data[c] # experiment.data[c]

\* C5 as stated: the matrix has 1.0 on the diagonal and M[row][col] =
\* spillover[(col, row)] off it.
C5_ColumnIsFrom ==
    Applied =>
        \A i, j \in 1..Len(aux.channels) :
            aux.a[i][j] = IF i = j THEN R(1)
                          ELSE spillover[<<aux.channels[j], aux.channels[i]>>]

\* C5 amended: the matrix has 1.0 on the diagonal and M[row][col] =
\* spillover[(row, col)] off it: the row's channel is the from channel, the
\* column's channel the to channel.
C5_RowIsFrom ==
    Applied =>
        /\ Len(aux.a) = Len(aux.channels)
        /\ \A i, j \in 1..Len(aux.channels) :
              aux.a[i][j] = IF i = j THEN R(1)
                            ELSE spillover[<<aux.channels[i], aux.channels[j]>>]

\* C5 witness: a matrix was built from a table whose two directions differ
C5_Witness ==
    /\ Applied
    /\ \E i, j \in 1..Len(aux.channels) :
          /\ i # j
          /\ aux.a[i][j] # aux.a[j][i]

\* every coefficient of a non-empty table that passes the three checks is zero
ZeroTable ==
    /\ spillover # << >>
    /\ ~Asymmetric /\ ~NamesMissingChannel
    /\ \A k \in DOMAIN spillover : spillover[k] = R(0)

\* C6 as stated: given a table of zeros that passes the checks, apply()
\* returns an experiment whose columns all equal the input's.
C6_ZeroTableIdentity ==
    (pc = "apply" /\ given /\ ZeroTable) =>
        /\ Applied
        /\ new_experiment.data = experiment.data

\* C7: after a successful apply() the linear_bleedthrough metadata of every
\* corrected channel c maps exactly the channels x with a key (x, c) in the table
\* to spillover[(x, c)].
C7_AuditTrail ==
    Applied =>
        \A c \in ChannelSet(spillover) :
            /\ "linear_bleedthrough" \in DOMAIN new_experiment.metadata[c]
            /\ LET lb == new_experiment.metadata[c].linear_bleedthrough
               IN  /\ DOMAIN lb = {k[1] : k \in {q \in DOMAIN spillover : q[2] = c}}
                   /\ \A x \in DOMAIN lb : lb[x] = spillover[<<x, c>>]

\* C7 witness: three channels were corrected with a table whose directions differ
C7_Witness ==
    /\ Applied
    /\ Cardinality(ChannelSet(spillover)) = 3
    /\ \E k \in DOMAIN spillover : spillover[k] # spillover[<<k[2], k[1]>>]

(***************************************************************************)
(* Properties of estimate().                                               *)
(***************************************************************************)
\* the controls name a file that does not exist
FileMissing == \E c \in DOMAIN controls : ~isfile(controls[c])

\* C8: with no experiment, fewer than two controls or a missing control file,
\* estimate() raises CytoflowOpError before it loads a file or writes an entry:
\* the table is as it was.
C8_ChecksBeforeWork ==
    [][(/\ pc' = "estimate"
        /\ ~given' \/ Cardinality(DOMAIN controls) < 2 \/ FileMissing) =>
         /\ outcome' = "CytoflowOpError"
         /\ aux'.returns = "raise"
         /\ aux'.loaded = << >>
         /\ spillover' = spillover]_vars

\* C8 witness: estimate() was given an experiment and at least two controls, one
\* with a file that exists and one without, and raised.
C8_Witness ==
    /\ pc = "estimate" /\ given
    /\ Cardinality(DOMAIN controls) >= 2
    /\ FileMissing
    /\ \E c \in DOMAIN controls : isfile(controls[c])
    /\ outcome = "CytoflowOpError"

\* C9 as stated: after a successful estimate() the table has a coefficient for
\* every ordered pair of distinct control channels, and every key of the table
\* has its mirrored key.
C9_CoverageSymmetric ==
    (pc = "estimate" /\ outcome = "ok") =>
        /\ \A x, y \in DOMAIN controls : x # y => <<x, y>> \in DOMAIN spillover
        /\ ~Asymmetric

\* C10 as stated: when trimming leaves no rows for a pair, estimate() raises
\* EstimationError.
C10_EstimationError ==
    (pc = "estimate" /\ aux.pair # << >>) => outcome = "EstimationError"

\* the table of control c as the fits of estimate() start from it: loaded, sorted
\* by c and with the experiment's baselines subtracted
ControlData(c) ==
    SubtractAf(sort(parse_tube(controls[c]), c), experiment, aux.channels, 1).data

\* C11 as stated: the rows fitted for every ordered pair (c, t) are the rows of
\* c's control trimmed on c and then, among the survivors, trimmed on t, and
\* nothing else decides them.
C11_TwoStepTrimAlone ==
    pc = "estimate" =>
        \A k \in DOMAIN aux.fits :
            aux.fits[k] = Trim(Trim(ControlData(k[1]), k[1]), k[2])

\* C12 as stated: estimate() returns the table and changes nothing: not the
\* operation's table, not the controls, not the experiment.
C12_ReturnsTable ==
    [][pc' = "estimate" =>
         /\ spillover' = spillover
         /\ controls' = controls
         /\ experiment' = experiment
         /\ outcome' = "ok" => aux'.returns = "SpilloverTable"]_vars

\* C12 amended: estimate() returns no value; it writes each fitted slope into the
\* operation's own table, so that after a successful call the table holds the
\* slope fitted for every ordered pair of controls; it changes neither the
\* controls nor the experiment and its metadata.
C12_WritesOwnTable ==
    [][pc' = "estimate" =>
         /\ controls' = controls
         /\ experiment' = experiment
         /\ new_experiment' = NoExperiment
         /\ aux'.returns \in {"None", "raise"}
         /\ outcome' = "ok" =>
              /\ aux'.returns = "None"
              /\ \A x, y \in DOMAIN controls :
                    x # y =>
                       /\ <<x, y>> \in DOMAIN spillover'
                       /\ spillover'[<<x, y>>] = polyfit(aux'.fits[<<x, y>>], x, y)]_vars

\* C12 witness: a successful estimate() over three controls returned None and
\* left its six slopes in the table
C12_Witness ==
    /\ pc = "estimate" /\ outcome = "ok"
    /\ aux.returns = "None"
    /\ Cardinality(DOMAIN controls) = 3
    /\ \A x, y \in DOMAIN controls : x # y => <<x, y>> \in DOMAIN spillover

\* the table is non-empty and passes the three checks apply() makes on it
PassesChecks ==
    /\ SpilloverSet(spillover)
    /\ ChannelsPresent(spillover, experiment)
    /\ Mirrored(spillover)

\* C13 as stated: given an experiment and a table that passes the checks, every
\* key apply() looks up for the matrix and the metadata is in the table, and the
\* call fails, if at all, with CytoflowOpError.
C13_LookupsDefined ==
    (pc = "apply" /\ given /\ PassesChecks) =>
        /\ \A x, y \in ChannelSet(spillover) :
              x # y => <<x, y>> \in DOMAIN spillover
        /\ outcome \in {"ok", "CytoflowOpError"}

\* the keys a table estimated from the controls ctl should have
ControlPairs(ctl) == {k \in (DOMAIN ctl) \X (DOMAIN ctl) : k[1] # k[2]}

\* C14 as stated: a call of estimate() that fails leaves the table as it was, and
\* one that succeeds leaves a table whose keys are exactly the ordered pairs of
\* distinct channels of the current controls.
C14_AtomicUpdate ==
    [][pc' = "estimate" =>
         /\ outcome' # "ok" => spillover' = spillover
         /\ outcome' = "ok" => DOMAIN spillover' = ControlPairs(controls)]_vars

====
